---------------------------- MODULE Spec2Model ----------------------------
(***************************************************************************)
(* Retrieval core of the RAG pipeline (src/ragpipeline/retrieval.py):      *)
(* Retriever.__init__, Retriever._boost_score_for_keywords and             *)
(* Retriever.search, with the Chroma vector index as an external           *)
(* collaborator.                                                           *)
(*                                                                         *)
(* Text is a sequence of one-character strings.  A distance is an integer  *)
(* number of raw units (one raw unit = 0.25); a boosted distance is kept   *)
(* in tenths of a raw unit, so that the multipliers 0.5, 0.8 and 1.0 are   *)
(* the integers 5, 8 and 10 and every product is exact.                    *)
(***************************************************************************)
EXTENDS Integers, Sequences, FiniteSets, TLC

VARIABLES
    db_exists,          \* VECTOR_DB_DIR.exists()
    store,              \* the index's ranked answer: sequence of [doc, score]
    embedding_model,    \* "None" | "loaded"      (HuggingFaceEmbeddings built)
    vector_db,          \* "None" | "Chroma"      (self.vector_db)
    retriever,          \* "None" | "Retriever"   (the constructed instance)
    init_error,         \* "none" | exception raised by the last __init__
    pc,                 \* per thread: position inside search
    args,               \* per thread: [query, k, score_threshold] of the call
    raw_results,        \* per thread: local raw_results
    reranked_results,   \* per thread: local reranked_results
    returned,           \* per thread: outcome of the last call with these args
    repeated,           \* per thread: that call repeated the one before it
    index_up,           \* the vector index answers (FALSE: its calls raise)
    index_calls,        \* per thread: index calls made by the current search
    index_raised,       \* per thread: the index raised during that search
    b_pc, b_doc, b_query, b_score, b_out,  \* one application of the boost
    ce,                 \* cross-encoder strategy: scores, top_n, last result
    api,                \* the last run_query call and its response
    gen,                \* the last direct generate_stream call
    remote,             \* dataset: the content each paper's url serves
    files,              \* dataset: the files of the raw data directory
    dl                  \* dataset: the last download_file / main call

vars == <<db_exists, store, embedding_model, vector_db, retriever, init_error,
          pc, args, raw_results, reranked_results, returned, repeated,
          index_up, index_calls, index_raised,
          b_pc, b_doc, b_query, b_score, b_out, ce, api, gen,
          remote, files, dl>>

searchVars == <<db_exists, store, embedding_model, vector_db, retriever,
                init_error, pc, args, raw_results, reranked_results, returned,
                repeated, index_up, index_calls, index_raised>>

boostVars == <<b_pc, b_doc, b_query, b_score, b_out>>

ceVars == <<ce>>

apiVars == <<api, gen>>

dataVars == <<remote, files, dl>>

---------------------------------------------------------------------------
\* Bounds of the model.

\* longest index answer
MaxStore == 3

\* largest k a caller asks for
MaxK == 2

\* longest index answer when two requests run concurrently
MaxConcStore == 7

\* largest raw distance, in raw units
MaxRaw == 2

\* longest text enumerated exhaustively for the boost function
MaxLen == 3

---------------------------------------------------------------------------
\* Program constants.

\* broad_k = k * 3
OverfetchFactor == 3

\* return score * 0.5, in tenths
ExactMatchTenths == 5

\* return score * 0.8, in tenths
PartialMatchTenths == 8

\* return score, in tenths
NoBoostTenths == 10

\* ... > 0.7, in tenths
RatioThresholdTenths == 7

\* score_threshold: float = 0.8, i.e. 3.2 raw units of 0.25, in tenths
DefaultThreshold == 32

---------------------------------------------------------------------------
\* Text: str.lower, the in operator on str, str.split.

Min(a, b) ==
    IF a <= b THEN a ELSE b

LowerChar(c) ==
    CASE c = "A" -> "a"
      [] c = "B" -> "b"
      [] OTHER -> c

lower(s) ==
    [i \in 1..Len(s) |-> LowerChar(s[i])]

\* needle in hay   (Python: the empty string is in every string)
Contains(needle, hay) ==
    \E i \in 0..(Len(hay) - Len(needle)) :
        SubSeq(hay, i + 1, i + Len(needle)) = needle

IsSpace(c) ==
    c \in {" ", "\t", "\n"}

\* the index of the last character of the word that starts at i
WordEnd(s, i) ==
    CHOOSE j \in i..Len(s) :
        /\ j = Len(s) \/ IsSpace(s[j + 1])
        /\ \A m \in i..j : ~IsSpace(s[m])

\* set(text.split()): the maximal runs of non-whitespace characters
split(s) ==
    {SubSeq(s, i, WordEnd(s, i)) :
        i \in {n \in 1..Len(s) : /\ ~IsSpace(s[n])
                                 /\ n = 1 \/ IsSpace(s[n - 1])}}

---------------------------------------------------------------------------
\* Retriever._boost_score_for_keywords

Ok(v) ==
    [kind |-> "ok", value |-> v]

Raise(e) ==
    [kind |-> "raise", value |-> e]

\* len(common_words) / len(query_words) > 0.7 for a non-empty query_words.
\* Both sides are exact: IEEE division is correctly rounded and the literal
\* 0.7 is the double nearest 7/10, so the float test agrees with the rational
\* one for every pair of set sizes below 2^52.
ExceedsRatioGe(common, total) ==
    common * 10 >= RatioThresholdTenths * total

ExceedsRatio(common, total) ==
    common * 10 > RatioThresholdTenths * total

\* The multiplier the function applies, in tenths, or the exception.
BoostMultiplierCompound(page_content, query) ==
    LET doc_text == lower(page_content)
        query_text == lower(query)
        query_words == split(query_text)
        doc_words == split(doc_text)
        common_words == query_words \cap doc_words
        partial == /\ query_words # {}
                   /\ ExceedsRatio(Cardinality(common_words), Cardinality(query_words))
    IN  IF Contains(query_text, doc_text)
        THEN Ok(IF partial THEN 4 ELSE ExactMatchTenths)
        ELSE IF query_words = {} THEN Raise("ZeroDivisionError")
        ELSE IF partial THEN Ok(PartialMatchTenths)
        ELSE Ok(NoBoostTenths)

BoostMultiplier(page_content, query) ==
    LET doc_text == lower(page_content)
        query_text == lower(query)
    IN  IF Contains(query_text, doc_text)
        THEN Ok(ExactMatchTenths)
        ELSE LET query_words == split(query_text)
                 doc_words == split(doc_text)
                 common_words == query_words \cap doc_words
             IN  IF Cardinality(query_words) = 0
                 THEN Raise("ZeroDivisionError")
                 ELSE IF ExceedsRatio(Cardinality(common_words),
                                      Cardinality(query_words))
                      THEN Ok(PartialMatchTenths)
                      ELSE Ok(NoBoostTenths)

\* _boost_score_for_keywords(doc, score, query): the boosted distance in
\* tenths of a raw unit, or the exception raised.
boost_score_for_keywords(page_content, score, query) ==
    LET m == BoostMultiplier(page_content, query)
    IN  IF m.kind = "raise" THEN m ELSE Ok(score * m.value)

---------------------------------------------------------------------------
\* Inputs of the boost function.

Alphabet == {"a", "b", "A", " "}

Texts(n) ==
    UNION {[1..m -> Alphabet] : m \in 0..n}

Letters == <<"a", "b", "c", "d", "e", "f", "g", "h", "i", "j">>

\* the i-th of 100 distinct two-letter words, i in 0..99
Word(i) ==
    <<Letters[(i \div 10) + 1], Letters[(i % 10) + 1]>>

\* the words lo..hi joined by single blanks
JoinWords(lo, hi) ==
    [p \in 1..(3 * (hi - lo + 1) - 1) |->
        IF (p - 1) % 3 = 2 THEN " "
        ELSE Word(lo + ((p - 1) \div 3))[((p - 1) % 3) + 1]]

\* the one-letter words Letters[lo..hi] joined by single blanks
JoinLetters(lo, hi) ==
    [p \in 1..(2 * (hi - lo + 1) - 1) |->
        IF p % 2 = 0 THEN " " ELSE Letters[lo + (p \div 2)]]

\* Hand-picked long inputs: 7 and 8 of 10 query words, 5 of 7, 70 and 71 of
\* 100, a query of three blanks, and an exact match inside a longer chunk.
LongPairs ==
    { [query |-> JoinLetters(1, 10), doc |-> JoinLetters(1, 7)],
      [query |-> JoinLetters(1, 10), doc |-> JoinLetters(1, 8)],
      [query |-> JoinLetters(1, 10), doc |-> JoinLetters(4, 10) \o <<"\n", "A">>],
      [query |-> JoinLetters(1, 7),  doc |-> JoinLetters(3, 7)],
      [query |-> JoinWords(0, 99),   doc |-> JoinWords(0, 69)],
      [query |-> JoinWords(0, 99),   doc |-> JoinWords(0, 70)],
      [query |-> JoinWords(0, 99),   doc |-> JoinWords(29, 99) \o <<"\t">>],
      [query |-> <<" ", " ", " ">>,  doc |-> JoinLetters(1, 7)],
      [query |-> <<"\t">>,           doc |-> JoinLetters(1, 3)],
      [query |-> JoinLetters(2, 4),  doc |-> JoinLetters(1, 7)],
      [query |-> <<"B", " ", "c">>,  doc |-> JoinLetters(1, 7)] }

BoostInputs ==
    {[query |-> q, doc |-> d] : q \in Texts(MaxLen), d \in Texts(MaxLen)}
        \cup LongPairs

---------------------------------------------------------------------------
\* The corpus behind the index and the requests of the search model.

Threads == {1, 2}

\* the thread that runs requests one after the other
MainThreads == {1}

Corpus == {"d_exact", "d_partial", "d_none"}

\* doc.page_content
page_content(d) ==
    CASE d = "d_exact"   -> <<"b", " ", "A", " ", "b">>
      [] d = "d_partial" -> <<"b", "\n", "a", " ">>
      [] d = "d_none"    -> <<"a", " ", "a">>

\* doc.metadata["source"]
source(d) ==
    CASE d = "d_exact"   -> "x.pdf"
      [] d = "d_partial" -> "y.pdf"
      [] d = "d_none"    -> "x.pdf"

QueryAB == <<"a", " ", "b">>

QueryBlank == <<" ", " ", " ">>

Queries == {QueryAB, QueryBlank}

Ks == 1..MaxK

\* 0.125, 0.25 and the default 0.8
Thresholds == {5, 10, DefaultThreshold}

RawScores == 1..MaxRaw

Candidates ==
    [doc : Corpus, score : RawScores]

Stores ==
    UNION {[1..n -> Candidates] : n \in 0..MaxStore}

CorpusSeq == <<"d_exact", "d_partial", "d_none">>

\* an index answer of n entries that cycles through the corpus
PatternStore(n, p) ==
    [i \in 1..n |->
        [doc |-> CorpusSeq[((i + p) % 3) + 1],
         score |-> ((i * (p + 1)) % MaxRaw) + 1]]

SmallStores ==
    {PatternStore(n, p) : n \in 0..MaxConcStore, p \in 0..2}

\* the k of each of two concurrent requests
ConcK(t) ==
    IF t = 1 THEN 2 ELSE 5

NoArgs ==
    [query |-> <<>>, k |-> 0, score_threshold |-> 0]

None == [kind |-> "none", value |-> <<>>]

---------------------------------------------------------------------------
\* Retriever.__init__

InitOutcomeLazy(exists) ==
    "ok"

\* the outcome of the constructor for a given VECTOR_DB_DIR.exists()
InitOutcome(exists) ==
    IF ~exists THEN "FileNotFoundError" ELSE "ok"

Construct ==
    /\ retriever = "None"
    /\ embedding_model' = "loaded"
    /\ LET out == InitOutcome(db_exists)
       IN  IF out = "ok"
           THEN /\ vector_db' = "Chroma"
                /\ retriever' = "Retriever"
                /\ init_error' = "none"
           ELSE /\ vector_db' = "None"
                /\ retriever' = "None"
                /\ init_error' = out
    /\ UNCHANGED <<db_exists, store, pc, args, raw_results, reranked_results,
                   returned, repeated, index_up, index_calls, index_raised>>
    /\ UNCHANGED <<boostVars, ceVars, apiVars, dataVars>>

---------------------------------------------------------------------------
\* Retriever.search

\* Chroma.similarity_search_with_score(query, k=n): the n nearest entries,
\* each Document a fresh object; id stands for the object's identity.
similarity_search_with_score(index, n) ==
    [i \in 1..Min(n, Len(index)) |->
        [doc |-> index[i].doc, id |-> i, score |-> index[i].score]]

BroadKDivided(k) ==
    k \div OverfetchFactor

\* broad_k = k * 3
BroadK(k) ==
    k * OverfetchFactor

\* reranked_results = []
StaleList(old) ==
    old

NewList(old) ==
    <<>>

\* list.sort(key=score) is stable: an element goes after every element whose
\* key is not greater.
InsertByScoreBeforeTies(sorted, x) ==
    LET p == Cardinality({i \in 1..Len(sorted) : sorted[i].score < x.score})
    IN  SubSeq(sorted, 1, p) \o <<x>> \o SubSeq(sorted, p + 1, Len(sorted))

InsertByScore(sorted, x) ==
    LET p == Cardinality({i \in 1..Len(sorted) : sorted[i].score <= x.score})
    IN  SubSeq(sorted, 1, p) \o <<x>> \o SubSeq(sorted, p + 1, Len(sorted))

RECURSIVE SortWith(_, _)
SortWith(s, acc) ==
    IF s = <<>> THEN acc
    ELSE SortWith(Tail(s), InsertByScore(acc, Head(s)))

NoSort(s) ==
    s

\* reranked_results.sort(key=lambda x: x[1])
SortByScore(s) ==
    SortWith(s, <<>>)

\* the loop over raw_results followed by the sort: the list, or the first
\* exception a boost raises
RerankOutcomeHoisted(old, raw, query) ==
    IF Cardinality(split(lower(query))) = 0
    THEN Raise("ZeroDivisionError")
    ELSE Ok(SortByScore(
            [i \in 1..Len(raw) |->
                [doc |-> raw[i].doc, id |-> raw[i].id,
                 score |-> boost_score_for_keywords(
                     page_content(raw[i].doc), raw[i].score, query).value]]))

RerankOutcome(old, raw, query) ==
    LET out == [i \in 1..Len(raw) |->
                   boost_score_for_keywords(page_content(raw[i].doc),
                                            raw[i].score, query)]
        failed == {i \in 1..Len(raw) : out[i].kind = "raise"}
    IN  IF failed # {}
        THEN out[CHOOSE i \in failed : \A j \in failed : i <= j]
        ELSE Ok(SortByScore(
                NewList(old) \o
                [i \in 1..Len(raw) |->
                    [doc |-> raw[i].doc, id |-> raw[i].id,
                     score |-> out[i].value]]))

PassesInverted(x, score_threshold) ==
    x.score >= score_threshold

PassesStrict(x, score_threshold) ==
    x.score < score_threshold

\* if score <= score_threshold
Passes(x, score_threshold) ==
    x.score <= score_threshold

FilterByThreshold(reranked, score_threshold) ==
    SelectSeq(reranked, LAMBDA x : Passes(x, score_threshold))

TruncateBroad(results, k) ==
    SubSeq(results, 1, Min(BroadK(k), Len(results)))

\* results[:k]   (k >= 1)
Truncate(results, k) ==
    SubSeq(results, 1, Min(k, Len(results)))

\* the index's answer to one call, or the exception the call raises
FetchOutcome(up, index, n) ==
    IF up THEN Ok(similarity_search_with_score(index, n))
    ELSE Raise("ChromaError")

SwallowFailure(out) ==
    IF out.kind = "raise" THEN Ok(<<>>) ELSE out

\* search wraps the index call in no try/except: what the call raises is
\* what search raises
PropagateFailure(out) ==
    out

\* t_start .. raw_results = similarity_search_with_score(query, k=broad_k)
CallWith(t, q, k, th) ==
    /\ retriever = "Retriever"
    /\ pc[t] = "idle"
    /\ LET a == [query |-> q, k |-> k, score_threshold |-> th]
           out == PropagateFailure(FetchOutcome(index_up, store, BroadK(k)))
       IN  /\ args' = [args EXCEPT ![t] = a]
           /\ index_calls' = [index_calls EXCEPT ![t] = 1]
           /\ index_raised' = [index_raised EXCEPT ![t] = ~index_up]
           /\ IF out.kind = "raise"
              THEN /\ returned' = [returned EXCEPT ![t] = out]
                   /\ repeated' = [repeated EXCEPT
                          ![t] = (a = args[t] /\ returned[t] # None)]
                   /\ raw_results' = [raw_results EXCEPT ![t] = <<>>]
                   /\ pc' = [pc EXCEPT ![t] = "idle"]
              ELSE /\ returned' = [returned EXCEPT
                          ![t] = IF a = args[t] THEN returned[t] ELSE None]
                   /\ repeated' = [repeated EXCEPT ![t] = FALSE]
                   /\ raw_results' = [raw_results EXCEPT ![t] = out.value]
                   /\ pc' = [pc EXCEPT ![t] = "rerank"]
    /\ UNCHANGED <<db_exists, store, embedding_model, vector_db, retriever,
                   init_error, reranked_results, index_up>>
    /\ UNCHANGED <<boostVars, ceVars, apiVars, dataVars>>

Call(t) ==
    \E q \in Queries, k \in Ks, th \in Thresholds : CallWith(t, q, k, th)

\* a request of one of two concurrent callers
ConcCall(t) ==
    \E q \in Queries, th \in Thresholds : CallWith(t, q, ConcK(t), th)

KAtTruncationShared(allargs, t) ==
    LET others == {u \in DOMAIN allargs : u # t /\ allargs[u].k > 0}
    IN  IF others = {} THEN allargs[t].k
        ELSE allargs[CHOOSE u \in others : TRUE].k

\* the k that results[:k] reads: the parameter of the call's own frame
KAtTruncation(allargs, t) ==
    allargs[t].k

\* the whole of search as one function of the index and the arguments
SearchOutcome(up, index, query, k, score_threshold) ==
    LET f == PropagateFailure(FetchOutcome(up, index, BroadK(k)))
    IN  IF f.kind = "raise" THEN f
        ELSE LET r == RerankOutcome(<<>>, f.value, query)
             IN  IF r.kind = "raise" THEN r
                 ELSE Ok(Truncate(FilterByThreshold(r.value, score_threshold),
                                  k))

\* the environment: the index becomes unreachable, or reachable again
IndexFlip ==
    /\ index_up' = ~index_up
    /\ UNCHANGED <<db_exists, store, embedding_model, vector_db, retriever,
                   init_error, pc, args, raw_results, reranked_results,
                   returned, repeated, index_calls, index_raised>>
    /\ UNCHANGED <<boostVars, ceVars, apiVars, dataVars>>

\* reranked_results = [] .. reranked_results.sort(...)
Rerank(t) ==
    /\ pc[t] = "rerank"
    /\ LET out == RerankOutcome(reranked_results[t], raw_results[t],
                                args[t].query)
       IN  IF out.kind = "raise"
           THEN /\ returned' = [returned EXCEPT ![t] = out]
                /\ repeated' = [repeated EXCEPT ![t] = returned[t] # None]
                /\ raw_results' = [raw_results EXCEPT ![t] = <<>>]
                /\ pc' = [pc EXCEPT ![t] = "idle"]
                /\ UNCHANGED reranked_results
           ELSE /\ reranked_results' = [reranked_results EXCEPT ![t] = out.value]
                /\ pc' = [pc EXCEPT ![t] = "select"]
                /\ UNCHANGED <<returned, raw_results, repeated>>
    /\ UNCHANGED <<db_exists, store, embedding_model, vector_db, retriever,
                   init_error, args, index_up, index_calls, index_raised>>
    /\ UNCHANGED <<boostVars, ceVars, apiVars, dataVars>>

\* results = [] .. return results
Select(t) ==
    /\ pc[t] = "select"
    /\ returned' = [returned EXCEPT ![t] =
           Ok(Truncate(FilterByThreshold(reranked_results[t],
                                         args[t].score_threshold),
                       KAtTruncation(args, t)))]
    /\ repeated' = [repeated EXCEPT ![t] = returned[t] # None]
    /\ raw_results' = [raw_results EXCEPT ![t] = <<>>]
    /\ pc' = [pc EXCEPT ![t] = "idle"]
    /\ UNCHANGED <<db_exists, store, embedding_model, vector_db, retriever,
                   init_error, args, reranked_results, index_up, index_calls,
                   index_raised>>
    /\ UNCHANGED <<boostVars, ceVars, apiVars, dataVars>>

---------------------------------------------------------------------------
\* Cross-encoder strategy of search (spec section 4.3): the Refiner keeps a
\* "desired top-N" setting that search writes before it invokes the
\* reranking pipeline.  Scores are relevances in hundredths, higher = better.

CEScores == {30, 75, 95}

\* the relevance the scorer gives to each fetched candidate, in fetch order
CEScoreLists ==
    UNION {[1..n -> CEScores] : n \in 0..MaxStore}

\* descending, ties in the order supplied
InsertDesc(sorted, x) ==
    LET p == Cardinality({i \in 1..Len(sorted) : sorted[i].score >= x.score})
    IN  SubSeq(sorted, 1, p) \o <<x>> \o SubSeq(sorted, p + 1, Len(sorted))

RECURSIVE SortDescWith(_, _)
SortDescWith(s, acc) ==
    IF s = <<>> THEN acc
    ELSE SortDescWith(Tail(s), InsertDesc(acc, Head(s)))

CERerankAscending(scores, top_n) ==
    LET all == SortByScore([i \in 1..Len(scores) |->
                               [id |-> i, score |-> scores[i]]])
    IN  SubSeq(all, 1, Min(top_n, Len(all)))

\* score every candidate, sort descending, keep the first top_n
CERerank(scores, top_n) ==
    LET all == SortDescWith([i \in 1..Len(scores) |->
                                [id |-> i, score |-> scores[i]]], <<>>)
    IN  SubSeq(all, 1, Min(top_n, Len(all)))

\* search(query, k): set the desired count, invoke the pipeline, pair each
\* document with its relevance score
CESearch ==
    /\ \E k \in Ks :
         ce' = [ce EXCEPT !.k = k, !.top_n = k,
                          !.out = Ok(CERerank(ce.scores, k))]
    /\ UNCHANGED <<searchVars, boostVars, apiVars, dataVars>>

---------------------------------------------------------------------------
\* RAGGenerator (src/ragpipeline/generation.py)

\* yielded when no document was retrieved
NoDocsMessage ==
    <<"I could not find any relevant documents to answer your query.">>

Token1 == <<"T", "1">>

Token2 == <<"T", "2">>

\* what self.chain.stream does: the tokens it yields, then the exception it
\* raises, if any
ChainOutcomes ==
    { [tokens |-> <<Token1, Token2>>, raised |-> "none"],
      [tokens |-> <<>>,               raised |-> "none"],
      [tokens |-> <<Token1>>,         raised |-> "OllamaError"] }

\* text.replace("\n", " ")
ReplaceNewlines(text) ==
    [i \in 1..Len(text) |-> IF text[i] = "\n" THEN " " ELSE text[i]]

\* text.strip()
strip(text) ==
    LET solid == {i \in 1..Len(text) : ~IsSpace(text[i])}
    IN  IF solid = {} THEN <<>>
        ELSE SubSeq(text,
                    CHOOSE lo \in solid : \A i \in solid : lo <= i,
                    CHOOSE hi \in solid : \A i \in solid : hi >= i)

\* format_docs: one <doc id source> entry per document, in order, ids from 1
format_docs(docs) ==
    [i \in 1..Len(docs) |->
        [id |-> i,
         source |-> source(docs[i].doc),
         content |-> strip(ReplaceNewlines(page_content(docs[i].doc)))]]

GenerateStreamNoGuard(query, docs, chain) ==
    [items |-> chain.tokens, raised |-> chain.raised, chain_calls |-> 1,
     context |-> format_docs(docs)]

\* generate_stream, consumed to its end: the items yielded, the exception
\* that ended it, the number of chain.stream calls and the context sent
GenerateStream(query, docs, chain) ==
    IF docs = <<>>
    THEN [items |-> <<NoDocsMessage>>, raised |-> "none", chain_calls |-> 0,
          context |-> <<>>]
    ELSE [items |-> chain.tokens, raised |-> chain.raised, chain_calls |-> 1,
          context |-> format_docs(docs)]

NoGenerate ==
    [called |-> FALSE, query |-> <<>>, docs |-> <<>>, items |-> <<>>,
     raised |-> "none", chain_calls |-> 0, context |-> <<>>]

\* the documents a direct caller passes to generate_stream
DocLists ==
    UNION {[1..n -> [doc : Corpus, id : {0}]] : n \in 0..MaxStore}

\* list(generator.generate_stream(query, docs))
GenerateDirect ==
    /\ \E q \in Queries, docs \in DocLists, chain \in ChainOutcomes :
         LET g == GenerateStream(q, docs, chain)
         IN  gen' = [called |-> TRUE, query |-> q, docs |-> docs,
                     items |-> g.items, raised |-> g.raised,
                     chain_calls |-> g.chain_calls, context |-> g.context]
    /\ UNCHANGED <<searchVars, boostVars, ceVars, api, dataVars>>

---------------------------------------------------------------------------
\* run_query (src/ragpipeline/api.py)

\* answer when search found nothing
ApiNoInfoMessage ==
    <<"I could not find any relevant information in the knowledge base to answer your question.">>

\* doc.page_content[:100]
PreviewLen == 100

Requests ==
    [query : Queries, k : Ks, use_hybrid_search : BOOLEAN]

\* index entries at distances 0.25 and 1.0: after the boost 1.0 stays
\* above the default threshold only for a chunk sharing no word
ApiCandidates ==
    { [doc |-> "d_exact",   score |-> 4],
      [doc |-> "d_partial", score |-> 1],
      [doc |-> "d_none",    score |-> 1],
      [doc |-> "d_none",    score |-> 4] }

ApiStores ==
    UNION {[1..n -> ApiCandidates] : n \in 0..MaxStore}

RECURSIVE Concat(_)
Concat(items) ==
    IF items = <<>> THEN <<>> ELSE Head(items) \o Concat(Tail(items))

Reverse(s) ==
    [i \in 1..Len(s) |-> s[Len(s) + 1 - i]]

\* raw_docs = [doc for doc, _ in docs_with_scores]
RawDocs(docs_with_scores) ==
    [i \in 1..Len(docs_with_scores) |->
        [doc |-> docs_with_scores[i].doc, id |-> docs_with_scores[i].id]]

ResponseSourcesReversed(docs_with_scores) ==
    LET r == Reverse(docs_with_scores)
    IN  [i \in 1..Len(r) |->
            [source |-> source(r[i].doc),
             context_preview |->
                 SubSeq(page_content(r[i].doc), 1,
                        Min(PreviewLen, Len(page_content(r[i].doc))))
                     \o <<".", ".", ".">>,
             score |-> r[i].score]]

\* response_sources = [SourceDocument(...) for doc, score in docs_with_scores]
ResponseSources(docs_with_scores) ==
    [i \in 1..Len(docs_with_scores) |->
        LET text == page_content(docs_with_scores[i].doc)
        IN  [source |-> source(docs_with_scores[i].doc),
             context_preview |->
                 SubSeq(text, 1, Min(PreviewLen, Len(text)))
                     \o <<".", ".", ".">>,
             score |-> docs_with_scores[i].score]]

NoRequest ==
    [query |-> <<>>, k |-> 0, use_hybrid_search |-> TRUE]

NoRunQuery ==
    [status |-> 0, request |-> NoRequest, search_out |-> None,
     gen_called |-> FALSE, gen_docs |-> <<>>, gen_raised |-> "none",
     context |-> <<>>, chain_calls |-> 0,
     answer |-> <<>>, sources |-> <<>>]

FailureAsNoInfo(request, out, g) ==
    [NoRunQuery EXCEPT !.status = 200, !.request = request,
                       !.search_out = out, !.answer = ApiNoInfoMessage]

\* except Exception as e: raise HTTPException(500, ...)
FailureResponse(request, out, g) ==
    [NoRunQuery EXCEPT !.status = 500, !.request = request,
                       !.search_out = out,
                       !.gen_called = g.called, !.gen_docs = g.docs,
                       !.gen_raised = g.raised, !.context = g.context,
                       !.chain_calls = g.chain_calls]

\* the whole handler: the response and what it did on the way
RunQueryOutcome(ready, request, up, index, chain) ==
    IF ~ready
    THEN [NoRunQuery EXCEPT !.status = 503, !.request = request]
    ELSE
      LET out == SearchOutcome(up, index, request.query, request.k,
                               DefaultThreshold)
      IN  IF out.kind = "raise"
          THEN FailureResponse(request, out, NoGenerate)
          ELSE IF out.value = <<>>
          THEN [NoRunQuery EXCEPT !.status = 200, !.request = request,
                                  !.search_out = out,
                                  !.answer = ApiNoInfoMessage]
          ELSE
            LET raw_docs == RawDocs(out.value)
                g == GenerateStream(request.query, raw_docs, chain)
                call == [NoGenerate EXCEPT
                            !.called = TRUE, !.docs = raw_docs,
                            !.raised = g.raised, !.context = g.context,
                            !.chain_calls = g.chain_calls]
            IN  IF g.raised # "none"
                THEN FailureResponse(request, out, call)
                ELSE [status |-> 200, request |-> request,
                      search_out |-> out,
                      gen_called |-> TRUE, gen_docs |-> raw_docs,
                      gen_raised |-> "none", context |-> g.context,
                      chain_calls |-> g.chain_calls,
                      answer |-> Concat(g.items),
                      sources |-> ResponseSources(out.value)]

RunQuery ==
    /\ \E request \in Requests, chain \in ChainOutcomes :
         api' = RunQueryOutcome(retriever = "Retriever", request, index_up,
                                store, chain)
    /\ UNCHANGED <<searchVars, boostVars, ceVars, gen, dataVars>>

---------------------------------------------------------------------------
\* download_file and main (src/ragpipeline/dataset.py)

MaxChunks == 2

\* the registry's file names; each has its own url
Papers == {"a.pdf", "b.pdf"}

\* what a url serves: n chunks of iter_content
Content(paper, n) ==
    [i \in 1..n |-> [url |-> paper, chunk |-> i]]

Absent == [exists |-> FALSE, data |-> <<>>]

\* how one HTTP download goes: no failure, requests.get raises,
\* raise_for_status raises, or the stream raises after some chunks
Failures ==
    { [at |-> "none", delivered |-> 0],
      [at |-> "request", delivered |-> 0],
      [at |-> "status", delivered |-> 0] }
    \cup [at : {"stream"}, delivered : 0..(MaxChunks - 1)]

\* a failure that can happen while this content is served
CanFail(failure, content) ==
    failure.at = "stream" => failure.delivered < Len(content)

\* download_file: the file it leaves at dest_path and what it logged
DownloadOutcome(file, content, failure) ==
    IF file.exists
    THEN [file |-> file, result |-> "skipped"]
    ELSE IF failure.at \in {"request", "status"}
    THEN [file |-> Absent, result |-> "failed"]
    ELSE IF failure.at = "stream"
    THEN [file |-> [exists |-> TRUE,
                    data |-> SubSeq(content, 1, failure.delivered)],
          result |-> "failed"]
    ELSE [file |-> [exists |-> TRUE, data |-> content],
          result |-> "downloaded"]

\* if force and dest_path.exists(): dest_path.unlink()
Unlink(file, force) ==
    IF force /\ file.exists THEN Absent ELSE file

NoDownload ==
    [op |-> "none", path |-> "", force |-> FALSE, result |-> "none"]

InitDataOff ==
    /\ remote = [p \in Papers |-> <<>>]
    /\ files = [p \in Papers |-> Absent]
    /\ dl = NoDownload

DownloadFile ==
    /\ \E p \in Papers, failure \in Failures :
         /\ CanFail(failure, remote[p])
         /\ LET out == DownloadOutcome(files[p], remote[p], failure)
            IN  /\ files' = [files EXCEPT ![p] = out.file]
                /\ dl' = [op |-> "download_file", path |-> p,
                          force |-> FALSE, result |-> out.result]
    /\ UNCHANGED <<searchVars, boostVars, ceVars, apiVars, remote>>

\* main: for every paper of the registry, unlink if forced, then download
Main ==
    /\ \E force \in BOOLEAN, failure \in [Papers -> Failures] :
         /\ \A p \in Papers : CanFail(failure[p], remote[p])
         /\ files' = [p \in Papers |->
                         DownloadOutcome(Unlink(files[p], force), remote[p],
                                         failure[p]).file]
         /\ dl' = [op |-> "main", path |-> "", force |-> force,
                   result |-> "complete"]
    /\ UNCHANGED <<searchVars, boostVars, ceVars, apiVars, remote>>

---------------------------------------------------------------------------
\* One application of _boost_score_for_keywords to an enumerated input.

ApplyBoost ==
    /\ b_pc = "start"
    /\ b_out' = boost_score_for_keywords(b_doc, b_score, b_query)
    /\ b_pc' = "done"
    /\ UNCHANGED <<b_doc, b_query, b_score>>
    /\ UNCHANGED <<searchVars, ceVars, apiVars, dataVars>>

---------------------------------------------------------------------------
\* Specifications.

InitSearchVars ==
    /\ embedding_model = "None"
    /\ vector_db = "None"
    /\ retriever = "None"
    /\ init_error = "none"
    /\ pc = [t \in Threads |-> "idle"]
    /\ args = [t \in Threads |-> NoArgs]
    /\ raw_results = [t \in Threads |-> <<>>]
    /\ reranked_results = [t \in Threads |-> <<>>]
    /\ returned = [t \in Threads |-> None]
    /\ repeated = [t \in Threads |-> FALSE]
    /\ index_calls = [t \in Threads |-> 0]
    /\ index_raised = [t \in Threads |-> FALSE]

InitBoostOff ==
    /\ b_pc = "off"
    /\ b_doc = <<>>
    /\ b_query = <<>>
    /\ b_score = 0
    /\ b_out = None

InitCEOff ==
    ce = [scores |-> <<>>, k |-> 0, top_n |-> 0, out |-> None]

InitApiOff ==
    /\ api = NoRunQuery
    /\ gen = NoGenerate

Init ==
    /\ db_exists \in BOOLEAN
    /\ store \in Stores
    /\ index_up = TRUE
    /\ InitSearchVars
    /\ InitBoostOff
    /\ InitCEOff
    /\ InitApiOff
    /\ InitDataOff

Next ==
    \/ Construct
    \/ \E t \in MainThreads : Call(t)
    \/ \E t \in MainThreads : Rerank(t)
    \/ \E t \in MainThreads : Select(t)

Spec == Init /\ [][Next]_vars

\* Two callers share one Retriever; their steps interleave.
InitConc ==
    /\ db_exists = TRUE
    /\ store \in SmallStores
    /\ index_up = TRUE
    /\ InitSearchVars
    /\ InitBoostOff
    /\ InitCEOff
    /\ InitApiOff
    /\ InitDataOff

NextConc ==
    \/ Construct
    \/ \E t \in Threads : ConcCall(t)
    \/ \E t \in Threads : Rerank(t)
    \/ \E t \in Threads : Select(t)

SpecConc == InitConc /\ [][NextConc]_vars

\* One caller; the index may be unreachable at any call.
InitFail ==
    /\ db_exists = TRUE
    /\ store \in SmallStores
    /\ index_up \in BOOLEAN
    /\ InitSearchVars
    /\ InitBoostOff
    /\ InitCEOff
    /\ InitApiOff
    /\ InitDataOff

NextFail ==
    \/ Construct
    \/ IndexFlip
    \/ \E t \in MainThreads : Call(t)
    \/ \E t \in MainThreads : Rerank(t)
    \/ \E t \in MainThreads : Select(t)

SpecFail == InitFail /\ [][NextFail]_vars

InitBoost ==
    /\ db_exists = TRUE
    /\ store = <<>>
    /\ index_up = TRUE
    /\ InitSearchVars
    /\ b_pc = "start"
    /\ \E in \in BoostInputs : b_doc = in.doc /\ b_query = in.query
    /\ b_score \in RawScores
    /\ b_out = None
    /\ InitCEOff
    /\ InitApiOff
    /\ InitDataOff

NextBoost ==
    ApplyBoost

SpecBoost == InitBoost /\ [][NextBoost]_vars

---------------------------------------------------------------------------
\* Properties of search (checked under Spec).

\* thread t's last call returned a list
ReturnedList(t) ==
    pc[t] = "idle" /\ returned[t].kind = "ok"

\* the candidates of that call that lie within the threshold
Qualifying(t) ==
    {i \in 1..Len(reranked_results[t]) :
        reranked_results[t][i].score <= args[t].score_threshold}

\* C1: every list search returns has at most k entries, whatever the index
\* supplied.
C1_LengthAtMostK ==
    \A t \in Threads :
        returned[t].kind = "ok" => Len(returned[t].value) <= args[t].k

\* C1 witness: a call returned exactly k entries although more than k
\* candidates were within the threshold.
C1_Witness ==
    \E t \in Threads :
        /\ ReturnedList(t)
        /\ Len(returned[t].value) = args[t].k
        /\ Cardinality(Qualifying(t)) > args[t].k

\* C2: every returned pair carries a boosted score that does not exceed
\* score_threshold.
C2_ScoresWithinThreshold ==
    \A t \in Threads :
        returned[t].kind = "ok" =>
            \A i \in 1..Len(returned[t].value) :
                returned[t].value[i].score <= args[t].score_threshold

\* C2 witness: a returned candidate whose raw distance exceeds the threshold
\* and whose boosted distance does not, next to a candidate that was dropped.
C2_Witness ==
    \E t \in Threads :
        /\ ReturnedList(t)
        /\ \E i \in 1..Len(returned[t].value) :
              /\ store[returned[t].value[i].id].score * NoBoostTenths
                     > args[t].score_threshold
              /\ returned[t].value[i].score <= args[t].score_threshold
        /\ Cardinality(Qualifying(t)) < Len(reranked_results[t])

\* C3: the returned list is in ascending order of boosted score.
C3_AscendingByScore ==
    \A t \in Threads :
        returned[t].kind = "ok" =>
            \A i \in 1..(Len(returned[t].value) - 1) :
                returned[t].value[i].score <= returned[t].value[i + 1].score

\* C3 witness: a returned list in which a candidate the index ranked later
\* comes strictly before one it ranked earlier.
C3_Witness ==
    \E t \in Threads :
        /\ ReturnedList(t)
        /\ \E i, j \in 1..Len(returned[t].value) :
              /\ i < j
              /\ returned[t].value[i].id > returned[t].value[j].id
              /\ returned[t].value[i].score < returned[t].value[j].score

\* C4: returned candidates with equal boosted scores keep the order in which
\* the index supplied them.
C4_StableTies ==
    \A t \in Threads :
        returned[t].kind = "ok" =>
            \A i, j \in 1..Len(returned[t].value) :
                (/\ i < j
                 /\ returned[t].value[i].score = returned[t].value[j].score)
                    => returned[t].value[i].id < returned[t].value[j].id

\* C4 witness: a tie made by boosting (the raw distances differ) between two
\* returned candidates.
C4_Witness ==
    \E t \in Threads :
        /\ ReturnedList(t)
        /\ \E i, j \in 1..Len(returned[t].value) :
              /\ i < j
              /\ returned[t].value[i].score = returned[t].value[j].score
              /\ store[returned[t].value[i].id].score
                     # store[returned[t].value[j].id].score

\* C8: when the index has no candidate for the query, a completed search has
\* returned the empty list and raised nothing.
C8_EmptyCandidatesEmptyResult ==
    \A t \in Threads :
        (store = <<>> /\ returned[t] # None) => returned[t] = Ok(<<>>)

\* C8 witness: a search for a query of blanks against an index with no
\* candidate came back with the empty list.
C8_Witness ==
    \E t \in Threads :
        /\ store = <<>>
        /\ pc[t] = "idle"
        /\ args[t].query = QueryBlank
        /\ returned[t] = Ok(<<>>)

\* C9: with the index location missing, construction raises
\* FileNotFoundError (the store-unavailable failure), leaves no instance and
\* no connection, and no search is ever started.
C9_ConstructionFailsFast ==
    ~db_exists =>
        /\ retriever = "None"
        /\ vector_db = "None"
        /\ embedding_model = "loaded" => init_error = "FileNotFoundError"
        /\ \A t \in Threads :
              pc[t] = "idle" /\ returned[t] = None /\ raw_results[t] = <<>>

\* C9 witness: a construction was attempted against a missing location and
\* failed.
C9_Witness ==
    /\ ~db_exists
    /\ embedding_model = "loaded"
    /\ init_error = "FileNotFoundError"

\* C10: a search that completes after an earlier search with the same
\* arguments, on the same index state, has the same outcome.
C10_RepeatedSearchSameResult ==
    [][\A t \in Threads :
          (pc[t] # "idle" /\ pc'[t] = "idle" /\ returned[t] # None)
              => returned'[t] = returned[t]]_vars

\* C10 witness: a repeated call returned a list of at least two candidates
\* whose order differs from the index's.
C10_Witness ==
    \E t \in Threads :
        /\ ReturnedList(t)
        /\ repeated[t]
        /\ Len(returned[t].value) >= 2
        /\ returned[t].value[1].id > returned[t].value[2].id

---------------------------------------------------------------------------
\* Properties of _boost_score_for_keywords (checked under SpecBoost).

QueryInChunk ==
    Contains(lower(b_query), lower(b_doc))

QueryWords ==
    split(lower(b_query))

CommonWords ==
    QueryWords \cap split(lower(b_doc))

\* C5: a chunk that contains the query gets exactly half its distance, never
\* 0.8 or 0.4 times it, also when the word-overlap rule would apply.
C5_ExactMatchHalves ==
    (b_pc = "done" /\ QueryInChunk) =>
        /\ b_out = Ok(5 * b_score)
        /\ b_out.value \notin {8 * b_score, 4 * b_score}

\* C5 witness: the boost was applied to a chunk that contains the query and
\* shares every query word with it.
C5_Witness ==
    /\ b_pc = "done"
    /\ QueryInChunk
    /\ QueryWords # {}
    /\ CommonWords = QueryWords
    /\ b_out = Ok(5 * b_score)

\* C6: for a chunk that does not contain the query, the distance is
\* multiplied by 0.8 exactly when more than 0.7 of the query words occur in
\* the chunk, and is left unchanged at a ratio of 0.7 or less.
C6_PartialMatchStrictlyAbove ==
    (b_pc = "done" /\ ~QueryInChunk) =>
        /\ (b_out = Ok(8 * b_score)) <=>
              (/\ QueryWords # {}
               /\ 10 * Cardinality(CommonWords) > 7 * Cardinality(QueryWords))
        /\ (/\ QueryWords # {}
            /\ 10 * Cardinality(CommonWords) <= 7 * Cardinality(QueryWords))
              => b_out = Ok(10 * b_score)

\* C6 witness: 7 of 10 query words occur in the chunk and the distance is
\* unchanged.
C6_Witness ==
    /\ b_pc = "done"
    /\ ~QueryInChunk
    /\ Cardinality(QueryWords) = 10
    /\ Cardinality(CommonWords) = 7
    /\ b_out = Ok(10 * b_score)

\* C7: with an empty query-word set and no exact match the boost raises
\* nothing and returns the distance unchanged.
C7_EmptyQueryWordsNoError ==
    (b_pc = "done" /\ ~QueryInChunk /\ QueryWords = {}) =>
        b_out = Ok(10 * b_score)

---------------------------------------------------------------------------
\* Properties of concurrent searches (checked under SpecConc).

\* C11: with a k=2 and a k=5 search interleaved on one Retriever, each search
\* returns at most its own k entries and exactly the outcome it has when it
\* runs alone on the same index.
C11_NoCrossContamination ==
    \A t \in Threads :
        returned[t] # None =>
            /\ returned[t].kind = "ok" =>
                  Len(returned[t].value) <= ConcK(t)
            /\ returned[t] = SearchOutcome(TRUE, store, args[t].query,
                                           ConcK(t), args[t].score_threshold)

\* C11 witness: the k=5 search has returned five entries while the k=2
\* search, started on more than two qualifying candidates, is in flight.
C11_Witness ==
    /\ pc[1] = "select"
    /\ returned[1] = None
    /\ Cardinality(Qualifying(1)) > 2
    /\ ReturnedList(2)
    /\ Len(returned[2].value) = 5

\* C13 (as stated): the candidate list the index hands to the boost loop
\* has at least k entries.
C13_FetchedAtLeastK ==
    \A t \in Threads :
        pc[t] = "rerank" => Len(raw_results[t]) >= args[t].k

\* C13 (amended): search asks the index for 3*k entries and gets
\* min(3*k, entries in the index); that is at least k whenever the index
\* holds at least k entries.
C13_FetchedMinOfBroadKAndIndex ==
    \A t \in Threads :
        pc[t] = "rerank" =>
            /\ Len(raw_results[t]) = Min(3 * args[t].k, Len(store))
            /\ Len(store) >= args[t].k => Len(raw_results[t]) >= args[t].k

\* C13 witness: an index with more than 3*k entries answered a search with
\* exactly 3*k candidates.
C13_Witness ==
    \E t \in Threads :
        /\ pc[t] = "rerank"
        /\ Len(store) > 3 * args[t].k
        /\ Len(raw_results[t]) = 3 * args[t].k

---------------------------------------------------------------------------
\* Further properties of search (checked under Spec and SpecFail).

\* C12: no two entries of a returned list have the same content and source.
C12_NoDuplicateChunks ==
    \A t \in Threads :
        returned[t].kind = "ok" =>
            \A i, j \in 1..Len(returned[t].value) :
                i < j =>
                    ~(/\ page_content(returned[t].value[i].doc)
                            = page_content(returned[t].value[j].doc)
                      /\ source(returned[t].value[i].doc)
                            = source(returned[t].value[j].doc))

\* C15: when the index raises during a search, the search has called the
\* index once and ends raising that same exception: no list, empty or
\* partial, is returned.
C15_IndexFailurePropagates ==
    \A t \in Threads :
        /\ index_calls[t] <= 1
        /\ index_raised[t] =>
              /\ pc[t] = "idle"
              /\ index_calls[t] = 1
              /\ returned[t] = Raise("ChromaError")
              /\ raw_results[t] = <<>>

\* C15 witness: a search failed on the index after an earlier search had
\* filled reranked_results.
C15_Witness ==
    \E t \in Threads :
        /\ index_raised[t]
        /\ returned[t] = Raise("ChromaError")
        /\ reranked_results[t] # <<>>

\* the candidates the index supplied to thread t's last search
Fetched(t) ==
    1..Min(3 * args[t].k, Len(store))

\* the boosted score of the i-th candidate for thread t's query
BoostedScore(t, i) ==
    boost_score_for_keywords(page_content(store[i].doc), store[i].score,
                             args[t].query).value

ReturnedIds(t) ==
    {returned[t].value[i].id : i \in 1..Len(returned[t].value)}

\* C20: a returned list is the best-k prefix of the qualifying candidates:
\* each entry is a distinct fetched candidate with its boosted score, no
\* omitted qualifying candidate beats a returned one, and a list shorter
\* than k holds every qualifying candidate.
C20_BestKPrefix ==
    \A t \in Threads :
        returned[t].kind = "ok" =>
            /\ \A i \in 1..Len(returned[t].value) :
                  LET e == returned[t].value[i]
                  IN  /\ e.id \in Fetched(t)
                      /\ e.doc = store[e.id].doc
                      /\ e.score = BoostedScore(t, e.id)
            /\ Cardinality(ReturnedIds(t)) = Len(returned[t].value)
            /\ \A j \in Fetched(t) \ ReturnedIds(t) :
                  ~(/\ BoostedScore(t, j) <= args[t].score_threshold
                    /\ \E i \in 1..Len(returned[t].value) :
                          BoostedScore(t, j) < returned[t].value[i].score)
            /\ Len(returned[t].value) < args[t].k =>
                  \A j \in Fetched(t) :
                      BoostedScore(t, j) <= args[t].score_threshold
                          => j \in ReturnedIds(t)

\* C20 witness: a returned list shorter than k that holds a candidate whose
\* boosted score equals the threshold, with another candidate left out.
C20_Witness ==
    \E t \in Threads :
        /\ ReturnedList(t)
        /\ Len(returned[t].value) < args[t].k
        /\ \E i \in 1..Len(returned[t].value) :
              returned[t].value[i].score = args[t].score_threshold
        /\ Fetched(t) \ ReturnedIds(t) # {}

---------------------------------------------------------------------------
\* Specifications of the cross-encoder strategy, run_query and
\* generate_stream.

InitCE ==
    /\ db_exists = TRUE
    /\ store = <<>>
    /\ index_up = TRUE
    /\ InitSearchVars
    /\ InitBoostOff
    /\ InitApiOff
    /\ InitDataOff
    /\ \E sc \in CEScoreLists :
         ce = [scores |-> sc, k |-> 0, top_n |-> 0, out |-> None]

NextCE ==
    CESearch

SpecCE == InitCE /\ [][NextCE]_vars

InitApi ==
    /\ db_exists = TRUE
    /\ store \in ApiStores
    /\ index_up \in BOOLEAN
    /\ InitSearchVars
    /\ InitBoostOff
    /\ InitCEOff
    /\ InitApiOff
    /\ InitDataOff

NextApi ==
    \/ Construct
    \/ RunQuery

SpecApi == InitApi /\ [][NextApi]_vars

InitGen ==
    /\ db_exists = TRUE
    /\ store = <<>>
    /\ index_up = TRUE
    /\ InitSearchVars
    /\ InitBoostOff
    /\ InitCEOff
    /\ InitApiOff
    /\ InitDataOff

NextGen ==
    GenerateDirect

SpecGen == InitGen /\ [][NextGen]_vars

---------------------------------------------------------------------------
ApiSearchOutcome ==
    SearchOutcome(index_up, store, api.request.query, api.request.k,
                  DefaultThreshold)

\* C16: in run_query an empty search result gives a 200 response with the
\* fixed could-not-find answer, no sources and no call to the generator,
\* while an exception from search or from generation gives a 500 response;
\* a 500 has no other cause, so the two outcomes are never conflated.
C16_EmptyIsNotFailure ==
    api.status \in {200, 500} =>
        LET out == ApiSearchOutcome
        IN  /\ api.search_out = out
            /\ out.kind = "raise" =>
                   /\ api.status = 500
                   /\ ~api.gen_called
            /\ (out.kind = "ok" /\ out.value = <<>>) =>
                   /\ api.status = 200
                   /\ api.answer = ApiNoInfoMessage
                   /\ api.sources = <<>>
                   /\ ~api.gen_called
                   /\ api.chain_calls = 0
            /\ api.gen_raised # "none" => api.status = 500
            /\ api.status = 500 =>
                   \/ out.kind = "raise"
                   \/ api.gen_raised # "none"

\* every candidate of a non-empty index was dropped by the threshold
C16_Witness ==
    /\ api.status = 200
    /\ store # <<>>
    /\ api.search_out = Ok(<<>>)
    /\ api.answer = ApiNoInfoMessage
    /\ api.sources = <<>>

\* C17: the documents passed to generate_stream, the <doc> entries of
\* format_docs (ids 1..n) and the sources of the QueryResponse have the
\* length and the order of the list search returned, and each response
\* source carries the score search returned for that chunk.
C17_GenerationKeepsRetrievalOrder ==
    api.gen_called =>
        LET dws == ApiSearchOutcome.value
        IN  /\ Len(api.gen_docs) = Len(dws)
            /\ Len(api.context) = Len(dws)
            /\ \A i \in 1..Len(dws) :
                   /\ api.gen_docs[i].id = dws[i].id
                   /\ api.gen_docs[i].doc = dws[i].doc
                   /\ api.context[i].id = i
                   /\ api.context[i].source = source(dws[i].doc)
                   /\ api.context[i].content =
                          strip(ReplaceNewlines(page_content(dws[i].doc)))
            /\ api.status = 200 =>
                   /\ Len(api.sources) = Len(dws)
                   /\ \A i \in 1..Len(dws) :
                          /\ api.sources[i].score = dws[i].score
                          /\ api.sources[i].source = source(dws[i].doc)

\* search reordered the index answer and the response keeps search's order
C17_Witness ==
    /\ api.status = 200
    /\ api.gen_called
    /\ Len(api.sources) >= 2
    /\ api.sources[1].score < api.sources[2].score
    /\ api.sources[1].source # api.sources[2].source
    /\ api.gen_docs[1].id > api.gen_docs[2].id

\* C19: with use_hybrid_search = false the scores the query endpoint
\* returns are the raw index distances, without the 0.5 / 0.8 multipliers.
C19_HybridFlagControlsBoosting ==
    (api.status = 200 /\ ~api.request.use_hybrid_search) =>
        \A i \in 1..Len(api.sources) :
            api.sources[i].score =
                store[api.search_out.value[i].id].score * NoBoostTenths

\* C18: generate_stream called with no documents yields exactly one item,
\* the fixed could-not-find-documents message, ends normally and never calls
\* the LLM chain.
C18_NoDocsSingleMessage ==
    (gen.called /\ gen.docs = <<>>) =>
        /\ gen.items = <<NoDocsMessage>>
        /\ gen.raised = "none"
        /\ gen.chain_calls = 0

C18_Witness ==
    /\ gen.called
    /\ gen.docs = <<>>
    /\ gen.items = <<NoDocsMessage>>
    /\ gen.chain_calls = 0

---------------------------------------------------------------------------
\* Specification of the dataset download.

InitData ==
    /\ db_exists = TRUE
    /\ store = <<>>
    /\ index_up = TRUE
    /\ InitSearchVars
    /\ InitBoostOff
    /\ InitCEOff
    /\ InitApiOff
    /\ \E n \in [Papers -> 1..MaxChunks] :
         remote = [p \in Papers |-> Content(p, n[p])]
    /\ files = [p \in Papers |-> Absent]
    /\ dl = NoDownload

NextData ==
    \/ DownloadFile
    \/ Main

SpecData == InitData /\ [][NextData]_vars

\* C21: after any sequence of download_file calls, failed ones included, a
\* dest_path that exists holds the complete content of its url.
C21_ExistingFileIsComplete ==
    \A p \in Papers :
        files[p].exists => files[p].data = remote[p]

===========================================================================
